---- MODULE Spec2Model ----
(***************************************************************************)
(* Page-replacement simulator: the five policies of algorithms.py (fifo,   *)
(* lru, optimal, second_chance, clock), the ALGORITHMS registry and the    *)
(* dispatch loop that runs one or all of them on a reference string.       *)
(*                                                                         *)
(* One engine call is modelled reference by reference: Call sets up the    *)
(* function's locals, one step action per policy executes one iteration of *)
(* its for loop, Return hands the result dict to the dispatcher.           *)
(***************************************************************************)
EXTENDS Integers, Sequences, FiniteSets, TLC

VARIABLES
    reference_string,   \* the list of page numbers handed to the engine
    frame_size,         \* the number of frames handed to the engine
    selected_algo,      \* the policy name requested from the dispatcher
    pc,                 \* "ready" | "dispatch" | "loop" | "raised" | "done"
    pending,            \* registry names still to be run by the dispatcher
    cur,                \* name of the policy whose call is executing, or NoAlgo
    i,                  \* number of references the running for loop has consumed
    frames,             \* local: resident pages
    ref_bits,           \* local (second_chance, clock): one bit per frame
    pointer,            \* local (second_chance, clock): the clock hand
    page_faults,        \* local: fault counter
    steps,              \* local: list of step records
    results,            \* the dispatcher's results dict, in insertion order
    error,              \* the exception that ended the run, or NoError
    first,              \* history: the first finished call of a session
    run,                \* per policy: the locals of its call when the five run side by side
    input_text,         \* the reference-string field, a list of characters
    frame_text,         \* the frame-size field, a list of characters
    cleared             \* history: bits the running while loop has cleared

vars == <<reference_string, frame_size, selected_algo, pc, pending, cur, i,
          frames, ref_bits, pointer, page_faults, steps, results, error, first,
          run, input_text, frame_text, cleared>>

locals == <<frames, ref_bits, pointer, page_faults, steps>>

\* what the sequential dispatcher and its calls never touch
aside == <<run, input_text, frame_text, cleared>>

-----------------------------------------------------------------------------
(* Bounds of the explored inputs *)

MaxPage == 3
MaxLen == 5
MaxFrames == 2
RepeatMaxLen == 3

(* The sample run of algorithms.py *)
SampleRefString == <<1, 2, 3, 4, 1, 2, 5, 1, 2, 3, 4, 5>>
SampleFrameSize == 3

Pages == 1..MaxPage
RefStrings == UNION {[1..n -> Pages] : n \in 0..MaxLen}
FrameSizes == (0 - 1)..MaxFrames
Inputs == (RefStrings \X FrameSizes) \cup {<<SampleRefString, SampleFrameSize>>}

-----------------------------------------------------------------------------
(* The registry *)

ALGORITHMS == <<"FIFO", "LRU", "Optimal", "Second Chance", "Clock">>
AllAlgorithms == "All Algorithms"
Registered == {ALGORITHMS[k] : k \in 1..Len(ALGORITHMS)}
\* a name the registry does not hold
Unregistered == "MRU"
Selections == {AllAlgorithms} \cup Registered \cup {Unregistered}

NoAlgo == "-"
NoError == "-"
NoCall == [algo |-> NoAlgo]

-----------------------------------------------------------------------------
(* Python list primitives *)

\* page in frames
Contains(f, p) == \E k \in 1..Len(f) : f[k] = p

\* list.index(x), 0-based; the caller guards x in list
IndexOf(f, p) == (CHOOSE k \in 1..Len(f) : f[k] = p /\ \A j \in 1..(k - 1) : f[j] # p) - 1

\* list.remove(x): drops the first occurrence
Remove(f, p) ==
    LET k == IndexOf(f, p) + 1
    IN SubSeq(f, 1, k - 1) \o SubSeq(f, k + 1, Len(f))

\* list[k] = x, k 0-based and in range
SetAt(f, k, x) == [f EXCEPT ![k + 1] = x]

-----------------------------------------------------------------------------
(* The loop bodies.  s is the record of the call's locals before the       *)
(* iteration, p the referenced page, n the frame_size argument.  Each body *)
(* yields the locals after the iteration, the iteration's fault flag, and  *)
(* in raised the exception the iteration ends with (NoError when none).    *)

Raise(s, exc) == [raised |-> exc, frames |-> s.frames, ref_bits |-> s.ref_bits,
                  pointer |-> s.pointer, page_faults |-> s.page_faults,
                  fault |-> TRUE]

\* fifo with the eviction forgotten: a fault always appends
fifo_NoEvict(s, p, n) ==
    IF ~Contains(s.frames, p)
    THEN [raised |-> NoError, frames |-> Append(s.frames, p),
          ref_bits |-> s.ref_bits, pointer |-> s.pointer,
          page_faults |-> s.page_faults + 1, fault |-> TRUE]
    ELSE [raised |-> NoError, frames |-> s.frames,
          ref_bits |-> s.ref_bits, pointer |-> s.pointer,
          page_faults |-> s.page_faults, fault |-> FALSE]

\* fifo popping the back of the list (pop() for pop(0))
fifo_PopLast(s, p, n) ==
    IF ~Contains(s.frames, p)
    THEN IF Len(s.frames) < n
         THEN [raised |-> NoError, frames |-> Append(s.frames, p),
               ref_bits |-> s.ref_bits, pointer |-> s.pointer,
               page_faults |-> s.page_faults + 1, fault |-> TRUE]
         ELSE IF s.frames = <<>>
              THEN Raise(s, "IndexError")
              ELSE [raised |-> NoError,
                    frames |-> Append(SubSeq(s.frames, 1, Len(s.frames) - 1), p),
                    ref_bits |-> s.ref_bits, pointer |-> s.pointer,
                    page_faults |-> s.page_faults + 1, fault |-> TRUE]
    ELSE [raised |-> NoError, frames |-> s.frames,
          ref_bits |-> s.ref_bits, pointer |-> s.pointer,
          page_faults |-> s.page_faults, fault |-> FALSE]

\* fifo evicting while one frame is still free
fifo_EvictEarly(s, p, n) ==
    IF ~Contains(s.frames, p)
    THEN IF Len(s.frames) + 1 < n \/ s.frames = <<>>
         THEN [raised |-> NoError, frames |-> Append(s.frames, p),
               ref_bits |-> s.ref_bits, pointer |-> s.pointer,
               page_faults |-> s.page_faults + 1, fault |-> TRUE]
         ELSE [raised |-> NoError, frames |-> Append(Tail(s.frames), p),
               ref_bits |-> s.ref_bits, pointer |-> s.pointer,
               page_faults |-> s.page_faults + 1, fault |-> TRUE]
    ELSE [raised |-> NoError, frames |-> s.frames,
          ref_bits |-> s.ref_bits, pointer |-> s.pointer,
          page_faults |-> s.page_faults, fault |-> FALSE]

\* fifo, lines 17-24
fifo(s, p, n) ==
    IF ~Contains(s.frames, p)
    THEN IF Len(s.frames) < n
         THEN [raised |-> NoError, frames |-> Append(s.frames, p),
               ref_bits |-> s.ref_bits, pointer |-> s.pointer,
               page_faults |-> s.page_faults + 1, fault |-> TRUE]
         ELSE IF s.frames = <<>>
              THEN Raise(s, "IndexError")          \* pop from empty list
              ELSE [raised |-> NoError, frames |-> Append(Tail(s.frames), p),
                    ref_bits |-> s.ref_bits, pointer |-> s.pointer,
                    page_faults |-> s.page_faults + 1, fault |-> TRUE]
    ELSE [raised |-> NoError, frames |-> s.frames,
          ref_bits |-> s.ref_bits, pointer |-> s.pointer,
          page_faults |-> s.page_faults, fault |-> FALSE]

\* lru with the move to the end on a hit forgotten
lru_NoTouch(s, p, n) ==
    IF ~Contains(s.frames, p)
    THEN IF Len(s.frames) < n
         THEN [raised |-> NoError, frames |-> Append(s.frames, p),
               ref_bits |-> s.ref_bits, pointer |-> s.pointer,
               page_faults |-> s.page_faults + 1, fault |-> TRUE]
         ELSE IF s.frames = <<>>
              THEN Raise(s, "IndexError")
              ELSE [raised |-> NoError, frames |-> Append(Tail(s.frames), p),
                    ref_bits |-> s.ref_bits, pointer |-> s.pointer,
                    page_faults |-> s.page_faults + 1, fault |-> TRUE]
    ELSE [raised |-> NoError, frames |-> s.frames,
          ref_bits |-> s.ref_bits, pointer |-> s.pointer,
          page_faults |-> s.page_faults, fault |-> FALSE]

\* lru whose hit drops the page and forgets to append it again
lru_HitDrops(s, p, n) ==
    IF ~Contains(s.frames, p)
    THEN IF Len(s.frames) < n
         THEN [raised |-> NoError, frames |-> Append(s.frames, p),
               ref_bits |-> s.ref_bits, pointer |-> s.pointer,
               page_faults |-> s.page_faults + 1, fault |-> TRUE]
         ELSE IF s.frames = <<>>
              THEN Raise(s, "IndexError")
              ELSE [raised |-> NoError, frames |-> Append(Tail(s.frames), p),
                    ref_bits |-> s.ref_bits, pointer |-> s.pointer,
                    page_faults |-> s.page_faults + 1, fault |-> TRUE]
    ELSE [raised |-> NoError, frames |-> Remove(s.frames, p),
          ref_bits |-> s.ref_bits, pointer |-> s.pointer,
          page_faults |-> s.page_faults, fault |-> FALSE]

\* lru, lines 51-61
lru(s, p, n) ==
    IF ~Contains(s.frames, p)
    THEN IF Len(s.frames) < n
         THEN [raised |-> NoError, frames |-> Append(s.frames, p),
               ref_bits |-> s.ref_bits, pointer |-> s.pointer,
               page_faults |-> s.page_faults + 1, fault |-> TRUE]
         ELSE IF s.frames = <<>>
              THEN Raise(s, "IndexError")          \* pop from empty list
              ELSE [raised |-> NoError, frames |-> Append(Tail(s.frames), p),
                    ref_bits |-> s.ref_bits, pointer |-> s.pointer,
                    page_faults |-> s.page_faults + 1, fault |-> TRUE]
    ELSE [raised |-> NoError, frames |-> Append(Remove(s.frames, p), p),
          ref_bits |-> s.ref_bits, pointer |-> s.pointer,
          page_faults |-> s.page_faults, fault |-> FALSE]

\* replace = None, line 94
None == 0

\* lines 97-100: future.index(frame), float('inf') when frame is not in future
Dist(future, fr) ==
    IF Contains(future, fr)
    THEN [inf |-> FALSE, at |-> IndexOf(future, fr)]
    ELSE [inf |-> TRUE, at |-> 0]

\* the comparison as >=: among pages equally far the last one wins
Greater_OrEqual(d, m) == IF d.inf THEN TRUE ELSE (~m.inf /\ d.at >= m.at)

\* line 101: dist > max_dist, over the integers and float('inf')
Greater(d, m) == IF d.inf THEN ~m.inf ELSE (~m.inf /\ d.at > m.at)

\* lines 96-103: the scan of frames from slot k on, carrying replace and max_dist
RECURSIVE Scan(_, _, _, _, _)
Scan(f, future, k, replace, max_dist) ==
    IF k > Len(f)
    THEN replace
    ELSE LET dist == Dist(future, f[k])
         IN IF Greater(dist, max_dist)
            THEN Scan(f, future, k + 1, f[k], dist)
            ELSE Scan(f, future, k + 1, replace, max_dist)

\* the comparison turned round: the page referenced soonest is replaced (the
\* first such page in frame order), None when there is no frame
Victim_Soonest(f, future) ==
    IF f = <<>>
    THEN None
    ELSE f[CHOOSE k \in 1..Len(f) :
               /\ \A j \in 1..Len(f) : ~Greater(Dist(future, f[k]), Dist(future, f[j]))
               /\ \A j \in 1..(k - 1) : Greater(Dist(future, f[j]), Dist(future, f[k]))]

\* lines 94-103: the page optimal replaces
Victim(f, future) == Scan(f, future, 1, None, [inf |-> FALSE, at |-> 0 - 1])

\* optimal raising the fault flag only where a page is replaced
optimal_FlagOnReplace(s, p, n, future) ==
    IF ~Contains(s.frames, p)
    THEN IF Len(s.frames) < n
         THEN [raised |-> NoError, frames |-> Append(s.frames, p),
               ref_bits |-> s.ref_bits, pointer |-> s.pointer,
               page_faults |-> s.page_faults + 1, fault |-> FALSE]
         ELSE LET replace == Victim(s.frames, future)
              IN IF ~Contains(s.frames, replace)
                 THEN Raise(s, "ValueError")
                 ELSE [raised |-> NoError,
                       frames |-> SetAt(s.frames, IndexOf(s.frames, replace), p),
                       ref_bits |-> s.ref_bits, pointer |-> s.pointer,
                       page_faults |-> s.page_faults + 1, fault |-> TRUE]
    ELSE [raised |-> NoError, frames |-> s.frames,
          ref_bits |-> s.ref_bits, pointer |-> s.pointer,
          page_faults |-> s.page_faults, fault |-> FALSE]

\* optimal, lines 88-105; future is reference_string[i+1:]
optimal(s, p, n, future) ==
    IF ~Contains(s.frames, p)
    THEN IF Len(s.frames) < n
         THEN [raised |-> NoError, frames |-> Append(s.frames, p),
               ref_bits |-> s.ref_bits, pointer |-> s.pointer,
               page_faults |-> s.page_faults + 1, fault |-> TRUE]
         ELSE LET replace == Victim(s.frames, future)
              IN IF ~Contains(s.frames, replace)
                 THEN Raise(s, "ValueError")       \* None is not in list
                 ELSE [raised |-> NoError,
                       frames |-> SetAt(s.frames, IndexOf(s.frames, replace), p),
                       ref_bits |-> s.ref_bits, pointer |-> s.pointer,
                       page_faults |-> s.page_faults + 1, fault |-> TRUE]
    ELSE [raised |-> NoError, frames |-> s.frames,
          ref_bits |-> s.ref_bits, pointer |-> s.pointer,
          page_faults |-> s.page_faults, fault |-> FALSE]

\* lines 140-142 and 183-185: the while loop, m the modulus the hand wraps at.
\* ok is FALSE when ref_bits[pointer] is out of range (IndexError).
RECURSIVE Sweep(_, _, _)
Sweep(b, ptr, m) ==
    IF ~(ptr \in 0..(Len(b) - 1))
    THEN [ok |-> FALSE, ref_bits |-> b, pointer |-> ptr]
    ELSE IF b[ptr + 1] = 1
         THEN Sweep(SetAt(b, ptr, 0), (ptr + 1) % m, m)
         ELSE [ok |-> TRUE, ref_bits |-> b, pointer |-> ptr]

\* the replacement with the final advance of the hand forgotten
Replace_NoAdvance(s, p, m) ==
    LET w == Sweep(s.ref_bits, s.pointer, m)
    IN IF ~w.ok
       THEN Raise(s, "IndexError")
       ELSE [raised |-> NoError,
             frames |-> SetAt(s.frames, w.pointer, p),
             ref_bits |-> SetAt(w.ref_bits, w.pointer, 1),
             pointer |-> w.pointer,
             page_faults |-> s.page_faults + 1, fault |-> TRUE]

\* the replacement with frames[pointer] = page forgotten
Replace_BitOnly(s, p, m) ==
    LET w == Sweep(s.ref_bits, s.pointer, m)
    IN IF ~w.ok
       THEN Raise(s, "IndexError")
       ELSE [raised |-> NoError,
             frames |-> s.frames,
             ref_bits |-> SetAt(w.ref_bits, w.pointer, 1),
             pointer |-> (w.pointer + 1) % m,
             page_faults |-> s.page_faults + 1, fault |-> TRUE]

\* lines 140-145 and 183-188: the replacement on a fault with no free frame
Replace(s, p, m) ==
    LET w == Sweep(s.ref_bits, s.pointer, m)
    IN IF ~w.ok
       THEN Raise(s, "IndexError")                 \* list index out of range
       ELSE [raised |-> NoError,
             frames |-> SetAt(s.frames, w.pointer, p),
             ref_bits |-> SetAt(w.ref_bits, w.pointer, 1),
             pointer |-> (w.pointer + 1) % m,
             page_faults |-> s.page_faults + 1, fault |-> TRUE]

\* second_chance, lines 134-148: the hand wraps at frame_size
second_chance(s, p, n) ==
    IF ~Contains(s.frames, p)
    THEN IF Len(s.frames) < n
         THEN [raised |-> NoError, frames |-> Append(s.frames, p),
               ref_bits |-> Append(s.ref_bits, 1), pointer |-> s.pointer,
               page_faults |-> s.page_faults + 1, fault |-> TRUE]
         ELSE Replace(s, p, n)
    ELSE [raised |-> NoError, frames |-> s.frames,
          ref_bits |-> SetAt(s.ref_bits, IndexOf(s.frames, p), 1),
          pointer |-> s.pointer,
          page_faults |-> s.page_faults, fault |-> FALSE]

\* clock admitting a page with its reference bit clear
clock_AdmitCold(s, p, n) ==
    IF ~Contains(s.frames, p)
    THEN IF Len(s.frames) < n
         THEN [raised |-> NoError, frames |-> Append(s.frames, p),
               ref_bits |-> Append(s.ref_bits, 0), pointer |-> s.pointer,
               page_faults |-> s.page_faults + 1, fault |-> TRUE]
         ELSE Replace(s, p, Len(s.frames))
    ELSE [raised |-> NoError, frames |-> s.frames,
          ref_bits |-> SetAt(s.ref_bits, IndexOf(s.frames, p), 1),
          pointer |-> s.pointer,
          page_faults |-> s.page_faults, fault |-> FALSE]

\* clock, lines 177-191: the hand wraps at len(frames)
clock(s, p, n) ==
    IF ~Contains(s.frames, p)
    THEN IF Len(s.frames) < n
         THEN [raised |-> NoError, frames |-> Append(s.frames, p),
               ref_bits |-> Append(s.ref_bits, 1), pointer |-> s.pointer,
               page_faults |-> s.page_faults + 1, fault |-> TRUE]
         ELSE Replace(s, p, Len(s.frames))
    ELSE [raised |-> NoError, frames |-> s.frames,
          ref_bits |-> SetAt(s.ref_bits, IndexOf(s.frames, p), 1),
          pointer |-> s.pointer,
          page_faults |-> s.page_faults, fault |-> FALSE]

-----------------------------------------------------------------------------
(* One engine call and the dispatcher around it *)

\* steps opening with a record of the initial state
NewLocals_StepZero ==
    [frames |-> <<>>, ref_bits |-> <<>>, pointer |-> 0, page_faults |-> 0,
     steps |-> <<[page |-> None, frames_before |-> <<>>, frames_after |-> <<>>,
                  page_fault |-> FALSE]>>]

\* the clock hand kept at module level: a call starts from where the last left it
NewLocals_KeepPointer ==
    [frames |-> <<>>, ref_bits |-> <<>>, pointer |-> pointer,
     page_faults |-> 0, steps |-> <<>>]

\* lines 9-11 (fifo), 43-45, 80-82, 124-128 (second_chance), 167-171: the
\* locals every call starts from; policies without ref_bits and pointer
\* never read them
NewLocals == [frames |-> <<>>, ref_bits |-> <<>>, pointer |-> 0,
              page_faults |-> 0, steps |-> <<>>]

\* faults reported as the number of steps
RunResult_CountSteps(pf, st) == [faults |-> Len(st), steps |-> st]

\* the return statement: {"faults": page_faults, "steps": steps}
RunResult(pf, st) == [faults |-> pf, steps |-> st]

\* the loop stopping one reference short
HasNext_SkipLast(refs, k) == k < Len(refs) - 1

\* for page in reference_string: another iteration is due after k of them
HasNext(refs, k) == k < Len(refs)

\* self.results[name] = value on an insertion-ordered dict
DictSet(d, k, v) ==
    IF \E j \in 1..Len(d) : d[j].name = k
    THEN [j \in 1..Len(d) |-> IF d[j].name = k THEN [name |-> k, result |-> v] ELSE d[j]]
    ELSE Append(d, [name |-> k, result |-> v])

\* the batch run over the names sorted, not in registration order
ToRun_Sorted(sel) ==
    IF sel = AllAlgorithms
    THEN <<"Clock", "FIFO", "LRU", "Optimal", "Second Chance">>
    ELSE IF sel \in Registered THEN <<sel>> ELSE <<>>

\* the names the dispatcher runs for a dropdown text
ToRun(sel) ==
    IF sel = AllAlgorithms
    THEN ALGORITHMS
    ELSE IF sel \in Registered THEN <<sel>> ELSE <<>>

Locals == [frames |-> frames, ref_bits |-> ref_bits, pointer |-> pointer,
           page_faults |-> page_faults]

\* the page of the iteration that is due
Page == reference_string[i + 1]

\* reference_string[i+1:] of that iteration
Future == SubSeq(reference_string, i + 2, Len(reference_string))

\* a policy whose call in the side-by-side batch has not begun
IdleRun == [pc |-> "idle", i |-> 0, frames |-> <<>>, ref_bits |-> <<>>,
            pointer |-> 0, page_faults |-> 0, steps |-> <<>>,
            result |-> [faults |-> 0, steps |-> <<>>]]

NoRuns == [a \in Registered |-> IdleRun]

Init ==
    /\ \E inp \in Inputs : reference_string = inp[1] /\ frame_size = inp[2]
    /\ selected_algo \in Selections
    /\ pc = "ready"
    /\ pending = <<>>
    /\ cur = NoAlgo
    /\ i = 0
    /\ frames = <<>>
    /\ ref_bits = <<>>
    /\ pointer = 0
    /\ page_faults = 0
    /\ steps = <<>>
    /\ results = <<>>
    /\ error = NoError
    /\ first = NoCall
    /\ run = NoRuns
    /\ input_text = <<>>
    /\ frame_text = <<>>
    /\ cleared = 0

\* run_simulation: results reset, then the names to run are fixed
Dispatch ==
    /\ pc = "ready"
    /\ results' = <<>>
    /\ pending' = ToRun(selected_algo)
    /\ pc' = "dispatch"
    /\ UNCHANGED <<reference_string, frame_size, selected_algo, cur, i, locals,
                   error, first, aside>>

\* algo_func(ref_string, frame_size): entry of the next call
Call ==
    /\ pc = "dispatch"
    /\ pending # <<>>
    /\ cur' = Head(pending)
    /\ i' = 0
    /\ frames' = NewLocals.frames
    /\ ref_bits' = NewLocals.ref_bits
    /\ pointer' = NewLocals.pointer
    /\ page_faults' = NewLocals.page_faults
    /\ steps' = NewLocals.steps
    /\ pc' = "loop"
    /\ UNCHANGED <<reference_string, frame_size, selected_algo, pending,
                   results, error, first, aside>>

\* frames_after stored without copy(): every record shows the live list
Snapshots_Alias(st, live) ==
    [k \in 1..Len(st) |-> [st[k] EXCEPT !.frames_after = live]]

\* current_state bound without copy(): every record's frames_before shows
\* the live list
Snapshots_AliasBefore(st, live) ==
    [k \in 1..Len(st) |-> [st[k] EXCEPT !.frames_before = live]]

\* lines 14 and 29 (48, 66; 85, 110; 131, 153; 174, 196): frames.copy() gives
\* each record lists of its own, so the records st read the same whatever the
\* live frame list has become
Snapshots(st, live) == st

\* the loop written as while reference_string: page = reference_string.pop(0)
Iterated_Pop(refs) == Tail(refs)

\* for page in reference_string (and the slice reference_string[i+1:] of
\* optimal): the caller's list is read, never written
Iterated(refs) == refs

\* the rest of an iteration: the step record is appended, or the exception
\* the body raised leaves the call and the dispatcher
Iterate(o) ==
    IF o.raised # NoError
    THEN /\ pc' = "raised"
         /\ error' = o.raised
         /\ UNCHANGED <<reference_string, frame_size, selected_algo, pending,
                        cur, i, locals, results, first, aside>>
    ELSE /\ frames' = o.frames
         /\ ref_bits' = o.ref_bits
         /\ pointer' = o.pointer
         /\ page_faults' = o.page_faults
         /\ steps' = Snapshots(Append(steps, [page |-> Page,
                                              frames_before |-> frames,
                                              frames_after |-> o.frames,
                                              page_fault |-> o.fault]),
                                o.frames)
         /\ i' = i + 1
         /\ reference_string' = Iterated(reference_string)
         /\ UNCHANGED <<frame_size, selected_algo, pc,
                        pending, cur, results, error, first, aside>>

FifoStep ==
    /\ pc = "loop" /\ cur = "FIFO" /\ HasNext(reference_string, i)
    /\ Iterate(fifo(Locals, Page, frame_size))

LruStep ==
    /\ pc = "loop" /\ cur = "LRU" /\ HasNext(reference_string, i)
    /\ Iterate(lru(Locals, Page, frame_size))

OptimalStep ==
    /\ pc = "loop" /\ cur = "Optimal" /\ HasNext(reference_string, i)
    /\ Iterate(optimal(Locals, Page, frame_size, Future))

SecondChanceStep ==
    /\ pc = "loop" /\ cur = "Second Chance" /\ HasNext(reference_string, i)
    /\ Iterate(second_chance(Locals, Page, frame_size))

ClockStep ==
    /\ pc = "loop" /\ cur = "Clock" /\ HasNext(reference_string, i)
    /\ Iterate(clock(Locals, Page, frame_size))

\* history of a session: the first call that returned, and in between whether
\* a call with another policy or another input has returned since
Remember(h, name, res) ==
    IF h = NoCall
    THEN [algo |-> name, reference_string |-> reference_string,
          frame_size |-> frame_size, result |-> res, between |-> FALSE]
    ELSE IF h.algo = name /\ h.frame_size = frame_size
         THEN h
         ELSE [h EXCEPT !.between = TRUE]

\* the call returns and the dispatcher stores its result
Return ==
    /\ pc = "loop"
    /\ ~HasNext(reference_string, i)
    /\ results' = DictSet(results, cur, RunResult(page_faults, steps))
    /\ first' = Remember(first, cur, RunResult(page_faults, steps))
    /\ pending' = Tail(pending)
    /\ cur' = NoAlgo
    /\ pc' = "dispatch"
    /\ UNCHANGED <<reference_string, frame_size, selected_algo, i, locals, error, aside>>

\* every requested call has returned
Finish ==
    /\ pc = "dispatch"
    /\ pending = <<>>
    /\ pc' = "done"
    /\ UNCHANGED <<reference_string, frame_size, selected_algo, pending, cur, i,
                   locals, results, error, first, aside>>

Next ==
    \/ Dispatch
    \/ Call
    \/ FifoStep
    \/ LruStep
    \/ OptimalStep
    \/ SecondChanceStep
    \/ ClockStep
    \/ Return
    \/ Finish

Spec == Init /\ [][Next]_vars

-----------------------------------------------------------------------------
(* A session: run_simulation is invoked again and again on the same        *)
(* reference string, each time for one registered policy and with the      *)
(* frame-size field possibly edited in between.                            *)

RepeatRefStrings == UNION {[1..n -> Pages] : n \in 0..RepeatMaxLen}
RepeatFrameSizes == 1..MaxFrames

InitRepeat ==
    /\ reference_string \in RepeatRefStrings
    /\ frame_size \in RepeatFrameSizes
    /\ selected_algo \in Registered
    /\ pc = "ready"
    /\ pending = <<>>
    /\ cur = NoAlgo
    /\ i = 0
    /\ frames = <<>>
    /\ ref_bits = <<>>
    /\ pointer = 0
    /\ page_faults = 0
    /\ steps = <<>>
    /\ results = <<>>
    /\ error = NoError
    /\ first = NoCall
    /\ run = NoRuns
    /\ input_text = <<>>
    /\ frame_text = <<>>
    /\ cleared = 0

\* run_simulation once more: the fields are read anew and results is reset
Rerun ==
    /\ pc = "done"
    /\ selected_algo' \in Registered
    /\ frame_size' \in RepeatFrameSizes
    /\ results' = <<>>
    /\ pending' = ToRun(selected_algo')
    /\ pc' = "dispatch"
    /\ UNCHANGED <<reference_string, cur, i, locals, error, first, aside>>

NextRepeat == Next \/ Rerun

SpecRepeat == InitRepeat /\ [][NextRepeat]_vars

-----------------------------------------------------------------------------
(* Properties *)

\* the entries of the results dict
Returned == {results[k] : k \in 1..Len(results)}

\* the traces in existence: those returned, and the one the running call is
\* building
Traces ==
    {[name |-> r.name, steps |-> r.result.steps] : r \in Returned}
    \cup (IF cur # NoAlgo THEN {[name |-> cur, steps |-> steps]} ELSE {})

NoDuplicates(f) == \A j, k \in 1..Len(f) : f[j] = f[k] => j = k

PageSet(f) == {f[k] : k \in 1..Len(f)}

FaultSteps(st) == {k \in 1..Len(st) : st[k].page_fault}

Has(name) == \E r \in Returned : r.name = name

FaultsOf(name) == (CHOOSE r \in Returned : r.name = name).result.faults

\* C1: with capacity >= 1, under every policy every step record's
\* frames_after holds at most capacity pages and no page twice.
C1_FramesBounded ==
    frame_size >= 1 =>
        \A t \in Traces : \A k \in 1..Len(t.steps) :
            /\ Len(t.steps[k].frames_after) <= frame_size
            /\ NoDuplicates(t.steps[k].frames_after)

\* C1 witness: a Second Chance fault on a full frame set has been recorded.
C1_Witness ==
    /\ frame_size >= 1
    /\ \E t \in Traces : \E k \in 1..Len(t.steps) :
        /\ t.name = "Second Chance"
        /\ t.steps[k].page_fault
        /\ Len(t.steps[k].frames_before) = frame_size
        /\ Len(t.steps[k].frames_after) = frame_size

\* C2: every returned result's fault count equals the number of its step
\* records whose page_fault flag is true.
C2_FaultCount ==
    \A r \in Returned :
        r.result.faults = Cardinality(FaultSteps(r.result.steps))

\* C2 witness: Clock has returned a trace that holds hits and faults.
C2_Witness ==
    \E r \in Returned :
        /\ r.name = "Clock"
        /\ r.result.faults >= 1
        /\ r.result.faults < Len(r.result.steps)

\* C3: with capacity >= 1, optimal's fault count is at most the fault count
\* of every other policy on the same input.
C3_OptimalFewest ==
    (frame_size >= 1 /\ Has("Optimal")) =>
        \A r \in Returned : FaultsOf("Optimal") <= r.result.faults

\* C3 witness: all five policies have returned and optimal beat FIFO and LRU.
C3_Witness ==
    /\ frame_size >= 1
    /\ Len(results) = Len(ALGORITHMS)
    /\ FaultsOf("Optimal") < FaultsOf("FIFO")
    /\ FaultsOf("Optimal") < FaultsOf("LRU")

\* C4: on a hit, fifo and optimal leave the frame list as it was; lru,
\* second_chance and clock leave the set of resident pages as it was.
C4_HitKeepsFrames ==
    \A t \in Traces : \A k \in 1..Len(t.steps) :
        ~t.steps[k].page_fault =>
            IF t.name \in {"FIFO", "Optimal"}
            THEN t.steps[k].frames_after = t.steps[k].frames_before
            ELSE PageSet(t.steps[k].frames_after) = PageSet(t.steps[k].frames_before)

\* C4 witness: an LRU hit that reordered the frames while keeping their set.
C4_Witness ==
    \E t \in Traces : \E k \in 1..Len(t.steps) :
        /\ t.name = "LRU"
        /\ ~t.steps[k].page_fault
        /\ t.steps[k].frames_after # t.steps[k].frames_before

\* C5: a call with capacity < 1 fails with InvalidCapacity at its start,
\* before any reference is processed, and returns no result.
C5_InvalidCapacity ==
    frame_size < 1 =>
        /\ results = <<>>
        /\ i = 0
        /\ pc = "raised" => error = "InvalidCapacity"
        /\ pc = "done" => ToRun(selected_algo) = <<>>

\* C6: a run requested for a name the registry does not hold fails with
\* UnknownPolicy and produces no result.
C6_UnknownPolicy ==
    (selected_algo \notin Registered \cup {AllAlgorithms} /\ pc # "ready") =>
        (pc = "raised" /\ error = "UnknownPolicy" /\ results = <<>>)

\* C7: on the sample reference string with 3 frames fifo returns 9 faults,
\* lru 10 and optimal 7.
C7_SampleFaults ==
    (reference_string = SampleRefString /\ frame_size = SampleFrameSize) =>
        /\ pc # "raised"
        /\ Has("FIFO") => FaultsOf("FIFO") = 9
        /\ Has("LRU") => FaultsOf("LRU") = 10
        /\ Has("Optimal") => FaultsOf("Optimal") = 7

\* C7 witness: the three policies have returned on the sample input.
C7_Witness ==
    /\ reference_string = SampleRefString
    /\ frame_size = SampleFrameSize
    /\ Has("FIFO") /\ Has("LRU") /\ Has("Optimal")

\* C8: on the empty reference string with capacity >= 1 every policy returns
\* normally, with fault count 0 and no step record.
C8_EmptyString ==
    (reference_string = <<>> /\ frame_size >= 1) =>
        /\ pc # "raised"
        /\ \A r \in Returned : r.result.faults = 0 /\ r.result.steps = <<>>
        /\ pc = "done" => {r.name : r \in Returned} = PageSet(ToRun(selected_algo))

\* C8 witness: the batch of all five policies has finished on the empty string.
C8_Witness ==
    /\ reference_string = <<>>
    /\ frame_size >= 1
    /\ pc = "done"
    /\ Len(results) = Len(ALGORITHMS)

\* C9: on a reference string of one page with capacity >= 1 every policy
\* returns exactly one step record, a fault, and fault count 1.
C9_SingleReference ==
    (Len(reference_string) = 1 /\ frame_size >= 1) =>
        /\ pc # "raised"
        /\ \A r \in Returned :
            /\ Len(r.result.steps) = 1
            /\ r.result.steps[1].page_fault
            /\ r.result.faults = 1
        /\ pc = "done" => {r.name : r \in Returned} = PageSet(ToRun(selected_algo))

\* C9 witness: the batch of all five policies has finished on one reference.
C9_Witness ==
    /\ Len(reference_string) = 1
    /\ frame_size >= 1
    /\ pc = "done"
    /\ Len(results) = Len(ALGORITHMS)

\* C10: a policy run again on the same reference string and capacity, also
\* after other runs in between, returns the result its first run returned.
C10_SameResultAgain ==
    \A r \in Returned :
        (/\ first # NoCall
         /\ first.algo = r.name
         /\ first.reference_string = reference_string
         /\ first.frame_size = frame_size) => r.result = first.result

\* C10 witness: Second Chance, whose first run left its hand off slot 0, has
\* returned again after a run of another policy or capacity in between.
C10_Witness ==
    /\ first # NoCall
    /\ first.between
    /\ first.algo = "Second Chance"
    /\ first.frame_size = frame_size
    /\ pointer # 0
    /\ Has("Second Chance")

\* the names of the results dict, in the order a loop over it visits them
ResultNames == [k \in 1..Len(results) |-> results[k].name]

\* C11: the registry holds exactly the five policies, and the run-all batch
\* visits them in the order FIFO, LRU, Optimal, Second Chance, Clock, leaving
\* one result per policy name.
C11_RegistryOrder ==
    /\ Registered = {"FIFO", "LRU", "Optimal", "Second Chance", "Clock"}
    /\ Len(ALGORITHMS) = Cardinality(Registered)
    /\ selected_algo = AllAlgorithms =>
        /\ ResultNames = SubSeq(<<"FIFO", "LRU", "Optimal", "Second Chance", "Clock">>,
                                1, Len(results))
        /\ pc = "done" => Len(results) = Cardinality(Registered)

\* C11 witness: the batch has finished on a reference string of several pages.
C11_Witness ==
    /\ selected_algo = AllAlgorithms
    /\ pc = "done"
    /\ frame_size >= 1
    /\ Len(reference_string) >= 2
    /\ Len(results) = Len(ALGORITHMS)

\* the traces of one policy
TracesOf(name) == {t.steps : t \in {u \in Traces : u.name = name}}

Greatest(S) == CHOOSE x \in S : \A y \in S : y <= x

\* the step before step k that admitted page q, resident at step k
AdmittedAt(st, k, q) ==
    Greatest({j \in 1..(k - 1) : st[j].page = q /\ st[j].page_fault})

\* the step before step k that referenced page q last
LastReferenced(st, k, q) == Greatest({j \in 1..(k - 1) : st[j].page = q})

\* C14: FIFO keeps frames in admission order; a fault on a full frame set
\* evicts the front page, which is the resident page admitted earliest, and
\* appends the new page at the back; a hit changes nothing.
C14_FifoOrder ==
    \A st \in TracesOf("FIFO") : \A k \in 1..Len(st) :
        LET b == st[k].frames_before
            a == st[k].frames_after
        IN /\ \A j, l \in 1..Len(a) :
                j < l => AdmittedAt(st, k + 1, a[j]) < AdmittedAt(st, k + 1, a[l])
           /\ (st[k].page_fault /\ Len(b) >= frame_size) =>
                /\ a = Append(Tail(b), st[k].page)
                /\ \A j \in 2..Len(b) :
                    AdmittedAt(st, k, b[1]) < AdmittedAt(st, k, b[j])
           /\ (st[k].page_fault /\ Len(b) < frame_size) => a = Append(b, st[k].page)
           /\ ~st[k].page_fault => a = b

\* C14 witness: FIFO hit its front page and evicted that page on the next
\* reference all the same.
C14_Witness ==
    \E st \in TracesOf("FIFO") : \E k \in 1..(Len(st) - 1) :
        /\ ~st[k].page_fault
        /\ st[k].page = st[k].frames_before[1]
        /\ st[k + 1].page_fault
        /\ Len(st[k + 1].frames_before) = frame_size
        /\ ~Contains(st[k + 1].frames_after, st[k].page)

\* the list f without page p, the others in their order
Without(f, p) == SelectSeq(f, LAMBDA x : x # p)

Front(f) == SubSeq(f, 1, Len(f) - 1)

\* C15: after every LRU step the referenced page is last in frames_after and
\* the other resident pages keep their relative order; a fault on a full
\* frame set evicts the resident page whose latest reference is the oldest.
C15_LruOrder ==
    \A st \in TracesOf("LRU") : \A k \in 1..Len(st) :
        LET b == st[k].frames_before
            a == st[k].frames_after
        IN /\ a # <<>>
           /\ a[Len(a)] = st[k].page
           /\ IF st[k].page_fault /\ Len(b) >= frame_size
              THEN /\ Front(a) = Tail(b)
                   /\ \A j \in 2..Len(b) :
                        LastReferenced(st, k, b[1]) < LastReferenced(st, k, b[j])
              ELSE Front(a) = Without(b, st[k].page)

\* C15 witness: LRU hit its front page, and the next reference, a fault on
\* the full frame set, evicted another page and kept the one just hit.
C15_Witness ==
    \E st \in TracesOf("LRU") : \E k \in 1..(Len(st) - 1) :
        /\ ~st[k].page_fault
        /\ st[k].page = st[k].frames_before[1]
        /\ st[k + 1].page_fault
        /\ Len(st[k + 1].frames_before) = frame_size
        /\ Contains(st[k + 1].frames_after, st[k].page)

\* the positions after position k at which page q is referenced
LaterUses(k, q) == {j \in (k + 1)..Len(reference_string) : reference_string[j] = q}

Least(S) == CHOOSE x \in S : \A y \in S : x <= y

\* after position k page x is next referenced strictly later than page y,
\* never counting as later than any position
UsedLater(k, x, y) ==
    /\ LaterUses(k, y) # {}
    /\ LaterUses(k, x) = {} \/ Least(LaterUses(k, x)) > Least(LaterUses(k, y))

\* C16: a fault of Optimal on a full frame set at position k evicts the
\* resident page whose next reference after k is farthest (never: infinitely
\* far), the earliest in frame order among those equally far, and the new
\* page takes its slot.
C16_OptimalVictim ==
    \A st \in TracesOf("Optimal") : \A k \in 1..Len(st) :
        LET b == st[k].frames_before
            a == st[k].frames_after
        IN (st[k].page_fault /\ Len(b) >= frame_size) =>
            \E e \in 1..Len(b) :
                /\ a = [b EXCEPT ![e] = st[k].page]
                /\ \A j \in 1..Len(b) : ~UsedLater(k, b[j], b[e])
                /\ \A j \in 1..(e - 1) : UsedLater(k, b[e], b[j])

\* C16 witness: Optimal evicted the first of several resident pages that are
\* never referenced again, and kept the later ones.
C16_Witness ==
    \E st \in TracesOf("Optimal") : \E k \in 1..Len(st) :
        LET b == st[k].frames_before
        IN /\ st[k].page_fault
           /\ Len(b) = frame_size
           /\ \E e \in 1..Len(b) : \E j \in (e + 1)..Len(b) :
                /\ st[k].frames_after[e] = st[k].page
                /\ LaterUses(k, b[e]) = {}
                /\ LaterUses(k, b[j]) = {}

\* the slot (1-based) d slots after the hand, wrapping at the capacity
HandSlot(d) == ((pointer + d) % frame_size) + 1

\* the number of slots the hand steps past from its position: the pages with
\* bit 1 in a row, the whole circle when every bit is 1
Passed ==
    Least({d \in 0..frame_size : d = frame_size \/ ref_bits[HandSlot(d)] = 0})

\* C17: a Second Chance hit sets the page's bit and moves neither hand nor
\* pages; a fault with a free frame appends the page with bit 1; a fault on
\* a full frame set clears the bits the hand steps past from where the last
\* such fault left it, replaces the first page found with bit 0 by the new
\* page with bit 1 and leaves the hand one slot further.
C17_SecondChanceStep ==
    [][(pc = "loop" /\ cur = "Second Chance" /\ i' = i + 1) =>
        LET p == reference_string[i + 1]
        IN IF Contains(frames, p)
           THEN /\ frames' = frames
                /\ pointer' = pointer
                /\ ref_bits' = [j \in 1..Len(ref_bits) |->
                                   IF frames[j] = p THEN 1 ELSE ref_bits[j]]
           ELSE IF Len(frames) < frame_size
           THEN /\ frames' = Append(frames, p)
                /\ ref_bits' = Append(ref_bits, 1)
                /\ pointer' = pointer
           ELSE /\ frames' = [frames EXCEPT ![HandSlot(Passed)] = p]
                /\ ref_bits' = [j \in 1..Len(ref_bits) |->
                                   IF j = HandSlot(Passed) THEN 1
                                   ELSE IF \E d \in 0..(Passed - 1) : j = HandSlot(d)
                                        THEN 0
                                        ELSE ref_bits[j]]
                /\ pointer' = HandSlot(Passed) % frame_size
    ]_vars

\* C17 witness: Second Chance, with several frames, has replaced a page after
\* stepping past others: the hand is off slot 0 and a bit is cleared.
C17_Witness ==
    /\ cur = "Second Chance"
    /\ pc = "loop"
    /\ frame_size >= 2
    /\ Len(frames) = frame_size
    /\ page_faults > frame_size
    /\ pointer # 0
    /\ \E j \in 1..Len(ref_bits) : ref_bits[j] = 0

\* C19: under every policy a step's page_fault flag is true exactly when the
\* referenced page is not in that step's frames_before.
C19_FaultIffAbsent ==
    \A t \in Traces : \A k \in 1..Len(t.steps) :
        t.steps[k].page_fault <=> ~Contains(t.steps[k].frames_before, t.steps[k].page)

\* C19 witness: an Optimal trace holds a fault into a free frame, a fault on
\* the full frame set and a hit.
C19_Witness ==
    \E st \in TracesOf("Optimal") : \E j, k, l \in 1..Len(st) :
        /\ st[j].page_fault /\ Len(st[j].frames_before) < frame_size
        /\ st[k].page_fault /\ Len(st[k].frames_before) = frame_size
        /\ ~st[l].page_fault

\* C20: with capacity >= 1 every returned trace holds one step record per
\* position of the reference string, in order, each naming that position's
\* page; the trace of a running call holds those of the positions consumed.
C20_OneStepPerReference ==
    frame_size >= 1 =>
        /\ \A r \in Returned :
            /\ Len(r.result.steps) = Len(reference_string)
            /\ \A k \in 1..Len(reference_string) :
                r.result.steps[k].page = reference_string[k]
        /\ (cur # NoAlgo) =>
            /\ Len(steps) = i
            /\ \A k \in 1..Len(steps) : steps[k].page = reference_string[k]

\* C20 witness: LRU and Optimal have returned on a reference string of at
\* least three references that does not open with a repeated page.
C20_Witness ==
    /\ frame_size >= 1
    /\ Len(reference_string) >= 3
    /\ reference_string[1] # reference_string[2]
    /\ Has("LRU") /\ Has("Optimal")

-----------------------------------------------------------------------------
(* The five policies run side by side on one input: each call is a process *)
(* of its own, and the iterations of the five for loops interleave in any  *)
(* order.  Every process owns the locals its function body declares.       *)

ParMaxLen == 3

\* the reference strings up to ParMaxLen, one per pattern of repetition: a
\* page is numbered by its first occurrence (the policies only compare pages
\* for equality)
ParRefStrings ==
    {s \in UNION {[1..n -> 1..ParMaxLen] : n \in 0..ParMaxLen} :
        \A k \in 1..Len(s) : \A q \in 1..(s[k] - 1) : \E j \in 1..(k - 1) : s[j] = q}

\* ALGORITHMS[name] applied to one iteration
Body(a, s, p, n, future) ==
    CASE a = "FIFO" -> fifo(s, p, n)
      [] a = "LRU" -> lru(s, p, n)
      [] a = "Optimal" -> optimal(s, p, n, future)
      [] a = "Second Chance" -> second_chance(s, p, n)
      [] a = "Clock" -> clock(s, p, n)

\* the clock hand kept at module level: every call reads the hand that
\* second_chance moves
ProcLocals_SharedPointer(a) ==
    [run[a] EXCEPT !.pointer = run["Second Chance"].pointer]

\* the locals the call of policy a reads: its own
ProcLocals(a) == run[a]

InitPar ==
    /\ reference_string \in ParRefStrings
    /\ frame_size \in RepeatFrameSizes
    /\ selected_algo = AllAlgorithms
    /\ pc = "ready"
    /\ pending = <<>>
    /\ cur = NoAlgo
    /\ i = 0
    /\ frames = <<>>
    /\ ref_bits = <<>>
    /\ pointer = 0
    /\ page_faults = 0
    /\ steps = <<>>
    /\ results = <<>>
    /\ error = NoError
    /\ first = NoCall
    /\ run = NoRuns
    /\ input_text = <<>>
    /\ frame_text = <<>>
    /\ cleared = 0

sequential == <<reference_string, frame_size, selected_algo, pc, pending, cur,
                i, locals, results, error, first, input_text, frame_text,
                cleared>>

\* the call of policy a begins
ParCall ==
    \E a \in Registered :
        /\ run[a].pc = "idle"
        /\ run' = [run EXCEPT ![a] =
                      [pc |-> "loop", i |-> 0, frames |-> NewLocals.frames,
                       ref_bits |-> NewLocals.ref_bits,
                       pointer |-> NewLocals.pointer,
                       page_faults |-> NewLocals.page_faults,
                       steps |-> NewLocals.steps, result |-> IdleRun.result]]
        /\ UNCHANGED sequential

\* one iteration of the for loop of policy a
ParStep ==
    \E a \in Registered :
        /\ run[a].pc = "loop"
        /\ HasNext(reference_string, run[a].i)
        /\ LET s == ProcLocals(a)
               p == reference_string[s.i + 1]
               o == Body(a, s, p, frame_size,
                         SubSeq(reference_string, s.i + 2, Len(reference_string)))
           IN run' = [run EXCEPT ![a] =
                         IF o.raised # NoError
                         THEN [run[a] EXCEPT !.pc = "raised"]
                         ELSE [pc |-> "loop", i |-> s.i + 1, frames |-> o.frames,
                               ref_bits |-> o.ref_bits, pointer |-> o.pointer,
                               page_faults |-> o.page_faults,
                               steps |-> Append(s.steps,
                                                [page |-> p,
                                                 frames_before |-> s.frames,
                                                 frames_after |-> o.frames,
                                                 page_fault |-> o.fault]),
                               result |-> s.result]]
        /\ UNCHANGED sequential

\* the call of policy a returns
ParReturn ==
    \E a \in Registered :
        /\ run[a].pc = "loop"
        /\ ~HasNext(reference_string, run[a].i)
        /\ run' = [run EXCEPT ![a].pc = "returned",
                              ![a].result = RunResult(run[a].page_faults, run[a].steps)]
        /\ UNCHANGED sequential

NextPar == ParCall \/ ParStep \/ ParReturn

SpecPar == InitPar /\ [][NextPar]_vars

\* the call of policy a run alone from locals s with k references consumed
RECURSIVE AloneFrom(_, _, _)
AloneFrom(a, s, k) ==
    IF ~HasNext(reference_string, k)
    THEN RunResult(s.page_faults, s.steps)
    ELSE LET p == reference_string[k + 1]
             o == Body(a, s, p, frame_size,
                       SubSeq(reference_string, k + 2, Len(reference_string)))
         IN IF o.raised # NoError
            THEN [raised |-> o.raised]
            ELSE AloneFrom(a, [frames |-> o.frames, ref_bits |-> o.ref_bits,
                               pointer |-> o.pointer, page_faults |-> o.page_faults,
                               steps |-> Append(s.steps,
                                                [page |-> p,
                                                 frames_before |-> s.frames,
                                                 frames_after |-> o.frames,
                                                 page_fault |-> o.fault])],
                           k + 1)

\* the result of policy a called alone on the input
Alone(a) == AloneFrom(a, NewLocals, 0)

\* C12: with the five runs interleaved in any order, every run that returns
\* returns what the policy returns when run alone on the same input.
C12_InterleavedAsAlone ==
    \A a \in Registered :
        /\ run[a].pc # "raised"
        /\ run[a].pc = "returned" => run[a].result = Alone(a)

\* C12 witness: Clock has returned, its hand off slot 0, while FIFO is in the
\* middle of its loop and Second Chance has not begun.
C12_Witness ==
    /\ run["Clock"].pc = "returned"
    /\ run["Clock"].pointer # 0
    /\ run["FIFO"].pc = "loop"
    /\ run["FIFO"].i >= 1
    /\ HasNext(reference_string, run["FIFO"].i)
    /\ run["Second Chance"].pc = "idle"
    /\ run["LRU"].pc = "returned"

LocalsOf(a) == <<run[a].frames, run[a].ref_bits, run[a].pointer,
                 run[a].page_faults, run[a].steps>>

\* C18: on every input with capacity >= 1 clock and second_chance agree:
\* after the same number of references their frames, reference bits, hand,
\* fault count and step records are equal, and so are the results returned.
C18_ClockIsSecondChance ==
    LET sc == run["Second Chance"]
        ck == run["Clock"]
    IN /\ (sc.pc \in {"loop", "returned"} /\ ck.pc \in {"loop", "returned"} /\ sc.i = ck.i) =>
            LocalsOf("Second Chance") = LocalsOf("Clock")
       /\ (sc.pc = "returned" /\ ck.pc = "returned") => sc.result = ck.result

\* C18 witness: both have returned after replacing pages on a full frame set
\* of several frames, the hand off slot 0.
C18_Witness ==
    /\ run["Second Chance"].pc = "returned"
    /\ run["Clock"].pc = "returned"
    /\ frame_size >= 2
    /\ run["Clock"].page_faults > frame_size
    /\ run["Clock"].pointer # 0

-----------------------------------------------------------------------------
(* run_simulation behind the window: the two text fields are parsed and     *)
(* checked before any policy is called.  A text is a list of characters.    *)

GuiMaxText == 3
MaxFrameText == 2

\* the upper limit of the frame size, and the size taken for a field that is
\* not all digits
MaxFrameSize == 10
DefaultFrameSize == 3

InputChars == {" ", "1", "x"}
FrameChars == {"0", "1", "5", "x"}
InputTexts == UNION {[1..n -> InputChars] : n \in 0..GuiMaxText}
FrameTexts == UNION {[1..n -> FrameChars] : n \in 0..MaxFrameText}

\* the dropdown's items
DropdownItems == {AllAlgorithms} \cup Registered

Digits == {"0", "1", "2", "3", "4", "5", "6", "7", "8", "9"}

DigitValue(c) ==
    CASE c = "0" -> 0 [] c = "1" -> 1 [] c = "2" -> 2 [] c = "3" -> 3
      [] c = "4" -> 4 [] c = "5" -> 5 [] c = "6" -> 6 [] c = "7" -> 7
      [] c = "8" -> 8 [] c = "9" -> 9

\* str.isdigit(): not empty and digits only
IsDigit(text) == text # <<>> /\ \A k \in 1..Len(text) : text[k] \in Digits

\* int(text) of a text of digits
RECURSIVE IntOf(_)
IntOf(text) ==
    IF text = <<>>
    THEN 0
    ELSE IntOf(SubSeq(text, 1, Len(text) - 1)) * 10 + DigitValue(text[Len(text)])

\* str.strip(): the blanks at both ends dropped
RECURSIVE Strip(_)
Strip(text) ==
    IF text = <<>>
    THEN text
    ELSE IF Head(text) = " "
         THEN Strip(Tail(text))
         ELSE IF text[Len(text)] = " "
              THEN Strip(SubSeq(text, 1, Len(text) - 1))
              ELSE text

\* str.split(): the words between runs of blanks; toks are the words
\* complete so far, tok is the word being read
RECURSIVE SplitFrom(_, _, _)
SplitFrom(text, toks, tok) ==
    IF text = <<>>
    THEN IF tok = <<>> THEN toks ELSE Append(toks, tok)
    ELSE IF Head(text) = " "
         THEN SplitFrom(Tail(text), IF tok = <<>> THEN toks ELSE Append(toks, tok), <<>>)
         ELSE SplitFrom(Tail(text), toks, Append(tok, Head(text)))

Split(text) == SplitFrom(text, <<>>, <<>>)

\* validate_input: the reference string, or the error shown.  Over the
\* characters explored int(x) succeeds exactly on the words of digits.
ValidateInput(text) ==
    IF Strip(text) = <<>>
    THEN [ok |-> FALSE, message |-> "Please enter a reference string", value |-> <<>>]
    ELSE LET toks == Split(Strip(text))
         IN IF \E k \in 1..Len(toks) : ~IsDigit(toks[k])
            THEN [ok |-> FALSE, message |-> "Enter space-separated integers only",
                  value |-> <<>>]
            ELSE [ok |-> TRUE, message |-> NoError,
                  value |-> [k \in 1..Len(toks) |-> IntOf(toks[k])]]

\* int(self.frame_field.text()) if self.frame_field.text().isdigit() else 3
FrameSizeOf(text) == IF IsDigit(text) THEN IntOf(text) ELSE DefaultFrameSize

\* the check letting a frame size of 0 through
FrameRejected_Negative(n) == n < 0 \/ n > MaxFrameSize

\* if frame_size <= 0 or frame_size > 10
FrameRejected(n) == n <= 0 \/ n > MaxFrameSize

InitGui ==
    /\ input_text \in InputTexts
    /\ frame_text \in FrameTexts
    /\ selected_algo \in DropdownItems
    /\ reference_string = <<>>
    /\ frame_size = 0
    /\ pc = "ready"
    /\ pending = <<>>
    /\ cur = NoAlgo
    /\ i = 0
    /\ frames = <<>>
    /\ ref_bits = <<>>
    /\ pointer = 0
    /\ page_faults = 0
    /\ steps = <<>>
    /\ results = <<>>
    /\ error = NoError
    /\ first = NoCall
    /\ run = NoRuns
    /\ cleared = 0

\* run_simulation up to the dispatch: an error dialog and return, or the
\* parsed input handed on
GuiRun ==
    /\ pc = "ready"
    /\ LET ref == ValidateInput(input_text)
           size == FrameSizeOf(frame_text)
       IN IF ~ref.ok
          THEN /\ pc' = "rejected"
               /\ error' = ref.message
               /\ UNCHANGED <<reference_string, frame_size, pending, results>>
          ELSE IF FrameRejected(size)
          THEN /\ pc' = "rejected"
               /\ error' = "Frame size must be between 1 and 10"
               /\ UNCHANGED <<reference_string, frame_size, pending, results>>
          ELSE /\ reference_string' = ref.value
               /\ frame_size' = size
               /\ results' = <<>>
               /\ pending' = ToRun(selected_algo)
               /\ pc' = "dispatch"
               /\ error' = error
    /\ UNCHANGED <<selected_algo, cur, i, locals, first, aside>>

NextGui ==
    \/ GuiRun
    \/ Call
    \/ FifoStep
    \/ LruStep
    \/ OptimalStep
    \/ SecondChanceStep
    \/ ClockStep
    \/ Return
    \/ Finish

SpecGui == InitGui /\ [][NextGui]_vars

\* C13: every policy call run_simulation makes has 1 <= capacity <= 10 and a
\* reference string that is not empty; a frame-size entry of 0 or above 10
\* is answered with an error and no policy is run.
C13_CallerChecksCapacity ==
    /\ cur # NoAlgo =>
        /\ 1 <= frame_size /\ frame_size <= 10
        /\ reference_string # <<>>
    /\ (pc # "ready" /\ IsDigit(frame_text)
        /\ (IntOf(frame_text) = 0 \/ IntOf(frame_text) > 10)) =>
        /\ pc = "rejected"
        /\ error # NoError
        /\ cur = NoAlgo
        /\ results = <<>>

\* C13 witness: a frame-size entry of 11 beside a well-formed reference
\* string has been turned down.
C13_Witness ==
    /\ pc = "rejected"
    /\ frame_text = <<"1", "1">>
    /\ ValidateInput(input_text).ok
    /\ error = "Frame size must be between 1 and 10"

-----------------------------------------------------------------------------
(* The trace as a record of the run *)

\* C21: while a call runs, every step of it leaves the step records already
\* appended as they were: page, frames_before, frames_after and page_fault of
\* steps[0..k] are not altered by the processing of a later reference.
C21_StepsAppendOnly ==
    [][(cur # NoAlgo /\ cur' = cur) =>
         /\ Len(steps') >= Len(steps)
         /\ SubSeq(steps', 1, Len(steps)) = steps]_vars

\* C21 witness: the live frame list has been changed by a replacement since
\* the first record was appended, and that record still shows the frames of
\* its own step.
C21_Witness ==
    /\ cur # NoAlgo
    /\ Len(steps) >= 3
    /\ Len(frames) = frame_size
    /\ steps[Len(steps)].page_fault
    /\ steps[1].frames_after = <<steps[1].page>>
    /\ steps[1].frames_after # frames
    /\ steps[1].frames_before = <<>>

-----------------------------------------------------------------------------
(* second_chance and clock with the while loop of the victim search taken  *)
(* one evaluation of its condition at a time.  pc = "while" is the control *)
(* point at the condition ref_bits[pointer]; cleared counts the bits the   *)
(* search under way has cleared (it stops counting one past frame_size).   *)

WhileMaxLen == 5

\* the reference strings up to WhileMaxLen, one per pattern of repetition
WhileRefStrings ==
    {s \in UNION {[1..n -> 1..WhileMaxLen] : n \in 0..WhileMaxLen} :
        \A k \in 1..Len(s) : \A q \in 1..(s[k] - 1) : \E j \in 1..(k - 1) : s[j] = q}

WhileFrameSizes == 0..MaxFrames

Hands == {"Second Chance", "Clock"}

\* the bit under the hand left set
Clear_Keep(b, ptr) == b

\* ref_bits[pointer] = 0
Clear(b, ptr) == SetAt(b, ptr, 0)

\* the hand moved on without wrapping
Advance_NoWrap(ptr, m) == ptr + 1

\* pointer = (pointer + 1) % m
Advance(ptr, m) == (ptr + 1) % m

\* what the hand wraps at: frame_size in second_chance, len(frames) in clock
Modulus == IF cur = "Clock" THEN Len(frames) ELSE frame_size

\* ref_bits[pointer] and frames[pointer] are in range
InRange == pointer \in 0..(Len(ref_bits) - 1) /\ pointer \in 0..(Len(frames) - 1)

InitWhile ==
    /\ reference_string \in WhileRefStrings
    /\ frame_size \in WhileFrameSizes
    /\ selected_algo \in DropdownItems
    /\ pc = "ready"
    /\ pending = <<>>
    /\ cur = NoAlgo
    /\ i = 0
    /\ frames = <<>>
    /\ ref_bits = <<>>
    /\ pointer = 0
    /\ page_faults = 0
    /\ steps = <<>>
    /\ results = <<>>
    /\ error = NoError
    /\ first = NoCall
    /\ run = NoRuns
    /\ input_text = <<>>
    /\ frame_text = <<>>
    /\ cleared = 0

\* an iteration that does not reach the while loop: a hit, or a fault with a
\* free frame
HandStep ==
    /\ pc = "loop" /\ cur \in Hands /\ HasNext(reference_string, i)
    /\ Contains(frames, Page) \/ Len(frames) < frame_size
    /\ Iterate(Body(cur, Locals, Page, frame_size, Future))

\* a fault with no free frame: control reaches the while loop
WhileEnter ==
    /\ pc = "loop" /\ cur \in Hands /\ HasNext(reference_string, i)
    /\ ~Contains(frames, Page)
    /\ ~(Len(frames) < frame_size)
    /\ pc' = "while"
    /\ cleared' = 0
    /\ UNCHANGED <<reference_string, frame_size, selected_algo, pending, cur, i,
                   locals, results, error, first, run, input_text, frame_text>>

\* the condition holds: the bit is cleared and the hand moves on
WhileBody ==
    /\ pc = "while"
    /\ InRange
    /\ ref_bits[pointer + 1] = 1
    /\ ref_bits' = Clear(ref_bits, pointer)
    /\ pointer' = Advance(pointer, Modulus)
    /\ cleared' = IF cleared > frame_size THEN cleared ELSE cleared + 1
    /\ UNCHANGED <<reference_string, frame_size, selected_algo, pc, pending,
                   cur, i, frames, page_faults, steps, results, error, first,
                   run, input_text, frame_text>>

\* the condition fails: the page under the hand is replaced and the rest of
\* the iteration follows
WhileExit ==
    /\ pc = "while"
    /\ InRange
    /\ ref_bits[pointer + 1] = 0
    /\ frames' = SetAt(frames, pointer, Page)
    /\ ref_bits' = SetAt(ref_bits, pointer, 1)
    /\ pointer' = Advance(pointer, Modulus)
    /\ page_faults' = page_faults + 1
    /\ steps' = Snapshots(Append(steps, [page |-> Page,
                                         frames_before |-> frames,
                                         frames_after |-> frames',
                                         page_fault |-> TRUE]),
                           frames')
    /\ i' = i + 1
    /\ reference_string' = Iterated(reference_string)
    /\ pc' = "loop"
    /\ UNCHANGED <<frame_size, selected_algo, pending, cur, results, error,
                   first, aside>>

\* the condition cannot be evaluated: IndexError leaves the call
WhileRaise ==
    /\ pc = "while"
    /\ ~InRange
    /\ pc' = "raised"
    /\ error' = "IndexError"
    /\ UNCHANGED <<reference_string, frame_size, selected_algo, pending, cur, i,
                   locals, results, first, aside>>

NextWhile ==
    \/ Dispatch
    \/ Call
    \/ FifoStep
    \/ LruStep
    \/ OptimalStep
    \/ HandStep
    \/ WhileEnter
    \/ WhileBody
    \/ WhileExit
    \/ WhileRaise
    \/ Return
    \/ Finish

\* one thread runs the calls: a statement that can execute does
SpecWhile == InitWhile /\ [][NextWhile]_vars /\ WF_vars(NextWhile)

\* C22: with capacity >= 1 every requested policy run returns a result, and a
\* victim search of second_chance or clock clears at most capacity bits
\* before it finds a bit that is 0.
C22_RunsTerminate ==
    /\ [](frame_size >= 1 => cleared <= frame_size)
    /\ (frame_size >= 1) =>
          <>(pc = "done" /\ ResultNames = ToRun(selected_algo))

\* C22 witness: a victim search has cleared every one of the capacity bits
\* and come round to the frame it started at.
C22_Witness ==
    /\ pc = "while"
    /\ frame_size >= 2
    /\ cleared = frame_size
    /\ pointer = 0
    /\ \A k \in 1..Len(ref_bits) : ref_bits[k] = 0

\* C23: no step of a policy run changes the reference string it was given:
\* from the dispatch to the last return the caller's list keeps its elements
\* in their order, and each call of a batch is handed the same list.
C23_ReferenceStringKept ==
    [][reference_string' = reference_string]_vars

\* C23 witness: in a run-all batch a policy has returned its trace of the
\* whole string and the next policy is running on the same list.
C23_Witness ==
    /\ selected_algo = AllAlgorithms
    /\ Len(results) >= 2
    /\ cur = "Optimal"
    /\ i >= 2
    /\ Len(reference_string) >= 3
    /\ \A k \in 1..Len(results) :
          [j \in 1..Len(reference_string) |-> results[k].result.steps[j].page]
              = reference_string

\* C24: in every trace the first step's frames_before is empty and each later
\* step's frames_before is, as an ordered list, the frames_after of the step
\* before it.
C24_TraceContinuity ==
    \A t \in Traces : \A k \in 1..Len(t.steps) :
        t.steps[k].frames_before =
            IF k = 1 THEN <<>> ELSE t.steps[k - 1].frames_after

\* C24 witness: an LRU trace in which a hit reordered the frames and the next
\* step starts from the reordered list.
C24_Witness ==
    \E st \in TracesOf("LRU") : \E k \in 2..(Len(st) - 1) :
        /\ ~st[k].page_fault
        /\ st[k].frames_after # st[k].frames_before
        /\ st[k + 1].frames_before = st[k].frames_after
        /\ st[k + 1].page_fault
        /\ st[1].frames_before = <<>>

\* C25: with capacity >= 1, under every policy the referenced page is
\* resident after its step, on a hit as on a fault.
C25_ReferencedPageResident ==
    frame_size >= 1 =>
        \A t \in Traces : \A k \in 1..Len(t.steps) :
            Contains(t.steps[k].frames_after, t.steps[k].page)

\* C25 witness: a Second Chance trace with a hit and with a fault that
\* replaced a page, the referenced page resident after each.
C25_Witness ==
    /\ frame_size >= 1
    /\ \E st \in TracesOf("Second Chance") : \E h, f \in 1..Len(st) :
          /\ ~st[h].page_fault
          /\ st[f].page_fault
          /\ Len(st[f].frames_before) = frame_size
          /\ Contains(st[h].frames_after, st[h].page)
          /\ Contains(st[f].frames_after, st[f].page)

\* C26: under every policy no step lowers the occupancy; a fault with a free
\* frame appends the referenced page; a fault on a full frame set keeps the
\* length and exchanges exactly one resident page for the referenced page;
\* a page leaves the frames only when they are full.
C26_FaultChangesOnePage ==
    \A t \in Traces : \A k \in 1..Len(t.steps) :
        LET rec == t.steps[k]
            b == rec.frames_before
            a == rec.frames_after
        IN /\ Len(a) >= Len(b)
           /\ (rec.page_fault /\ Len(b) < frame_size) => a = Append(b, rec.page)
           /\ (rec.page_fault /\ Len(b) = frame_size) =>
                 /\ Len(a) = Len(b)
                 /\ Cardinality(PageSet(b) \ PageSet(a)) = 1
                 /\ PageSet(a) \ PageSet(b) = {rec.page}
           /\ PageSet(b) \ PageSet(a) # {} => Len(b) = frame_size

\* C26 witness: a Clock trace with a fault that filled a free frame and a
\* fault that exchanged one page of the full frame set.
C26_Witness ==
    \E st \in TracesOf("Clock") : \E f, g \in 1..Len(st) :
        /\ st[f].page_fault /\ Len(st[f].frames_before) < frame_size
        /\ st[f].frames_before # <<>>
        /\ st[g].page_fault /\ Len(st[g].frames_before) = frame_size
        /\ Cardinality(PageSet(st[g].frames_before) \ PageSet(st[g].frames_after)) = 1

\* C27: at every control point of a second_chance or clock run with capacity
\* >= 1, the while loop's included, ref_bits has one entry per resident
\* frame, every entry is 0 or 1, 0 <= pointer < capacity, the pointer is 0 as
\* long as no fault has met a full frame set, and no access to frames or
\* ref_bits is out of range.
C27_HandInvariant ==
    (cur \in Hands /\ frame_size >= 1) =>
        /\ Len(ref_bits) = Len(frames)
        /\ \A k \in 1..Len(ref_bits) : ref_bits[k] \in {0, 1}
        /\ 0 <= pointer /\ pointer < frame_size
        /\ pointer # 0 =>
              \/ pc = "while"
              \/ \E k \in 1..Len(steps) :
                    steps[k].page_fault /\ Len(steps[k].frames_before) = frame_size
        /\ pc = "while" => InRange
        /\ pc # "raised" /\ error = NoError

\* C27 witness: a victim search of clock under way on a full frame set, the
\* hand on the last frame, one bit cleared behind it and one set before it.
C27_Witness ==
    /\ cur = "Clock"
    /\ pc = "while"
    /\ frame_size >= 2
    /\ Len(frames) = frame_size
    /\ pointer = frame_size - 1
    /\ ref_bits[1] = 0
    /\ ref_bits[pointer + 1] = 1
    /\ Len(steps) > frame_size

====
